---- MODULE Spec2Model ----
(***************************************************************************)
(* Model of the two scripts of nextflow-spid:                              *)
(*   bin/parse_sketch_output.py   (one sample's sketch table -> one call)  *)
(*   bin/collect_sketch_output.py (many call tables -> one sorted table)   *)
(*                                                                         *)
(* A text value is a sequence of one-character strings, so that splitting  *)
(* and lexical comparison are computed character by character.  A file is  *)
(* a header (sequence of column names) and rows of text fields; a          *)
(* DataFrame holds cells, which are either a str or NaN.                   *)
(***************************************************************************)
EXTENDS Integers, Sequences, FiniteSets, TLC

\* ---------------------------------------------------------------- bounds
MaxRows == 4        \* rows of a sketch table given to the parse script
MaxFiles == 2       \* files given to the collect script
MaxFileRows == 2    \* rows of one file given to the collect script

\* ---------------------------------------------------------------- helpers
Range(s) == {s[i] : i \in 1..Len(s)}
SetMin(S) == CHOOSE x \in S : \A y \in S : x <= y
SetMax(S) == CHOOSE x \in S : \A y \in S : x >= y
SeqsUpTo(S, n) == UNION {[1..k -> S] : k \in 0..n}

\* Code points of the characters used by the model's texts.
Ord(ch) ==
    CASE ch = "\t" -> 9
      [] ch = " " -> 32
      [] ch = "1" -> 49
      [] ch = "2" -> 50
      [] ch = "3" -> 51
      [] ch = "4" -> 52
      [] ch = "A" -> 65
      [] ch = "C" -> 67
      [] ch = "N" -> 78
      [] ch = "Z" -> 90
      [] ch = "a" -> 97
      [] ch = "k" -> 107
      [] ch = "s" -> 115
      [] ch = "w" -> 119
      [] ch = "x" -> 120
      [] ch = "y" -> 121
      [] ch = "z" -> 122

\* Python's str < str : lexicographic on code points.
RECURSIVE StrLess(_, _)
StrLess(a, b) ==
    IF b = <<>> THEN FALSE
    ELSE IF a = <<>> THEN TRUE
    ELSE IF Ord(a[1]) # Ord(b[1]) THEN Ord(a[1]) < Ord(b[1])
    ELSE StrLess(Tail(a), Tail(b))

\* ---------------------------------------------------------------- cells
Str(t) == [kind |-> "str", s |-> t]
NaN == [kind |-> "nan", s |-> <<>>]
NA == <<"N", "A">>

\* The default na_values of pandas.read_csv that occur among the model's
\* texts.  All other texts of the model are non-numeric, so every column is
\* read as a column of str and NaN.
NaValues == {<<>>, NA}

\* pandas.read_csv, one field: a default NA marker is read as NaN.
ParseCell(t) == IF t \in NaValues THEN NaN ELSE Str(t)

\* DataFrame.to_csv, one cell: NaN is written as the empty field (na_rep='').
FormatCell(c) == IF c.kind = "nan" THEN <<>> ELSE c.s

\* ---------------------------------------------------------------- tables
NoFrame == [columns |-> <<>>, rows |-> <<>>]
NoOutput == [written |-> FALSE, columns |-> <<>>, rows |-> <<>>]

HasColumn(d, c) == c \in Range(d.columns)
Column(d, c) == [i \in 1..Len(d.rows) |-> d.rows[i][c]]

\* pd.read_csv(f, sep='\t'): same header, every field parsed.
read_csv(f) ==
    [columns |-> f.columns,
     rows |-> [i \in 1..Len(f.rows) |->
                 [c \in Range(f.columns) |-> ParseCell(f.rows[i][c])]]]

\* df.to_csv(path, sep='\t', index=False): header and formatted cells.
to_csv(d) ==
    [written |-> TRUE,
     columns |-> d.columns,
     rows |-> [i \in 1..Len(d.rows) |->
                 [c \in Range(d.columns) |-> FormatCell(d.rows[i][c])]]]

\* ---------------------------------------------------------------- get_species
\* hit.split(' ')[0] : the text before the first U+0020, the whole text if none.
split_first(t) ==
    LET idx == {i \in 1..Len(t) : t[i] = " "}
    IN IF idx = {} THEN t ELSE SubSeq(t, 1, SetMin(idx) - 1)

\* collections.Counter(list): an insertion-ordered mapping key -> count,
\* kept as a sequence of items in order of first insertion.
RECURSIVE Counter(_)
Counter(l) ==
    IF l = <<>> THEN <<>>
    ELSE LET c == Counter(SubSeq(l, 1, Len(l) - 1))
             x == l[Len(l)]
             hit == {i \in 1..Len(c) : c[i].key = x}
         IN IF hit = {} THEN Append(c, [key |-> x, n |-> 1])
            ELSE [i \in 1..Len(c) |->
                    IF i \in hit THEN [key |-> x, n |-> c[i].n + 1] ELSE c[i]]

most_common1_bykey(c) ==
    LET m == SetMax({c[i].n : i \in 1..Len(c)})
        top == {i \in 1..Len(c) : c[i].n = m}
    IN c[CHOOSE i \in top : \A j \in top : ~StrLess(c[i].key, c[j].key)]

most_common1_last(c) ==
    LET m == SetMax({c[i].n : i \in 1..Len(c)})
    IN c[SetMax({i \in 1..Len(c) : c[i].n = m})]

\* Counter.most_common(1)[0] for a non-empty counter: heapq.nlargest(1, ...)
\* is max(items, key=count), the first item in iteration order with the
\* largest count.
most_common1(c) ==
    LET m == SetMax({c[i].n : i \in 1..Len(c)})
    IN c[SetMin({i \in 1..Len(c) : c[i].n = m})]

Raise(e) == [exc |-> e, genus |-> <<>>, tax |-> <<>>]
Return(g, t) == [exc |-> "none", genus |-> g, tax |-> t]

get_species_nocatch(sketch_df) ==
    IF ~HasColumn(sketch_df, "taxName") THEN Raise("KeyError")
    ELSE LET tax_list == Column(sketch_df, "taxName")
         IN IF Len(tax_list) = 0 THEN Raise("KeyError")
            ELSE IF \E i \in 1..Len(tax_list) : tax_list[i].kind # "str"
                 THEN Raise("AttributeError")
            ELSE Return(most_common1(Counter([i \in 1..Len(tax_list) |->
                            split_first(tax_list[i].s)])).key, tax_list[1].s)

get_species_lasttax(sketch_df) ==
    IF ~HasColumn(sketch_df, "taxName") THEN Return(NA, NA)
    ELSE LET tax_list == Column(sketch_df, "taxName")
         IN IF Len(tax_list) = 0 THEN Raise("KeyError")
            ELSE IF \E i \in 1..Len(tax_list) : tax_list[i].kind # "str"
                 THEN Raise("AttributeError")
            ELSE Return(most_common1(Counter([i \in 1..Len(tax_list) |->
                            split_first(tax_list[i].s)])).key,
                        tax_list[Len(tax_list)].s)

\* get_species(sketch_df): the (genus, taxonomy) pair it returns, or the
\* exception that leaves it.
\*   line 16-20  no 'taxName' column: KeyError caught, return ('NA', 'NA')
\*   line 21     tax_list[0]: KeyError on a column without rows (not caught)
\*   line 22     hit.split on a cell that is not a str: AttributeError
\*   line 23-26  most common first token, first row's name
get_species(sketch_df) ==
    IF ~HasColumn(sketch_df, "taxName") THEN Return(NA, NA)
    ELSE LET tax_list == Column(sketch_df, "taxName")
         IN IF Len(tax_list) = 0 THEN Raise("KeyError")
            ELSE IF \E i \in 1..Len(tax_list) : tax_list[i].kind # "str"
                 THEN Raise("AttributeError")
            ELSE LET top_tax == tax_list[1].s
                     genus_list == [i \in 1..Len(tax_list) |->
                                      split_first(tax_list[i].s)]
                     genus_occurence == Counter(genus_list)
                     top_genus == most_common1(genus_occurence).key
                 IN Return(top_genus, top_tax)

\* ---------------------------------------------------------------- concat
\* Columns of pd.concat(frames): the union, in order of first appearance.
RECURSIVE UnionColumns(_)
UnionColumns(frames) ==
    IF frames = <<>> THEN <<>>
    ELSE LET prev == UnionColumns(SubSeq(frames, 1, Len(frames) - 1))
             last == frames[Len(frames)].columns
         IN prev \o SelectSeq(last, LAMBDA c : c \notin Range(prev))

\* Rows of one frame re-indexed to cols: a column the frame lacks is NaN.
Reindex(d, cols) ==
    [i \in 1..Len(d.rows) |->
       [c \in Range(cols) |->
          IF HasColumn(d, c) THEN d.rows[i][c] ELSE NaN]]

RECURSIVE ConcatRows(_, _)
ConcatRows(frames, cols) ==
    IF frames = <<>> THEN <<>>
    ELSE Reindex(Head(frames), cols) \o ConcatRows(Tail(frames), cols)

\* pd.concat(frames), join='outer': frames in the order given, rows in
\* each frame's order; differing column sets are united, never rejected.
concat(frames) ==
    LET cols == UnionColumns(frames)
    IN [columns |-> cols, rows |-> ConcatRows(frames, cols)]

\* ---------------------------------------------------------------- sort_values
\* Orders of the row positions in S that are ascending by key.  Positions
\* with equal keys come in any order: kind='quicksort', the default of
\* sort_values, promises no order among equal keys (numpy's quicksort leaves
\* them in place only in partitions of at most 17 elements, and swaps them
\* in longer ones).  The short tables of the model stand for tables of any
\* length, so every key-ascending order is a possible outcome.
RECURSIVE SortedOrders(_, _)
SortedOrders(S, key) ==
    IF S = {} THEN {<<>>}
    ELSE LET least == {i \in S : \A j \in S : ~StrLess(key[j].s, key[i].s)}
         IN UNION {{<<i>> \o rest : rest \in SortedOrders(S \ {i}, key)} :
                   i \in least}

\* The positions in S in ascending order.
RECURSIVE Ascending(_)
Ascending(S) ==
    IF S = {} THEN <<>>
    ELSE <<SetMin(S)>> \o Ascending(S \ {SetMin(S)})

\* nargsort(key, kind='quicksort', ascending=True, na_position='last'):
\* the non-NaN positions sorted by key, then the NaN positions in their
\* original order.
nargsort(key) ==
    LET nan_idx == {i \in 1..Len(key) : key[i].kind = "nan"}
        non_nan_idx == (1..Len(key)) \ nan_idx
    IN {ix \o Ascending(nan_idx) : ix \in SortedOrders(non_nan_idx, key)}

\* The frame with its rows taken in the order of the indexer.
take(d, ix) ==
    [columns |-> d.columns, rows |-> [i \in 1..Len(ix) |-> d.rows[ix[i]]]]

\* ---------------------------------------------------------------- inputs
Full == <<"sample", "genus", "taxonomy">>
NoTax == <<"sample", "genus">>

\* Sample identifiers given to the parse script (--id).
Ids == {<<"s", "1">>, NA}

\* taxName fields of a sketch table: two names of genus A / Z, a name with a
\* tab before its first space, a name without a space, and the NA marker.
TaxNames ==
    {<<"A", " ", "x">>, <<"Z", " ", "y">>, <<"Z", "\t", "z", " ", "w">>,
     <<"C">>, NA}

SketchHeaders == {<<"WKID">>, <<"taxName">>, <<"WKID", "taxName">>}

SketchRow(h, t) ==
    [c \in Range(h) |-> IF c = "taxName" THEN t ELSE <<"k">>]

\* Sketch tables: any header, up to MaxRows rows.
Sketches ==
    UNION {IF "taxName" \in Range(h)
           THEN {[columns |-> h,
                  rows |-> [i \in 1..Len(ts) |-> SketchRow(h, ts[i])]] :
                 ts \in SeqsUpTo(TaxNames, MaxRows)}
           ELSE {[columns |-> h,
                  rows |-> [i \in 1..n |-> SketchRow(h, <<>>)]] :
                 n \in 0..MaxRows}
           : h \in SketchHeaders}

Call(s, g, t) == [sample |-> s, genus |-> g, taxonomy |-> t]

\* Rows of the call tables given to the collect script: calls as the parse
\* script writes them, among them the fallback ('NA', 'NA') and two calls
\* with the same taxonomy.
Calls ==
    {Call(<<"s", "1">>, <<"Z">>, <<"Z", " ", "y">>),
     Call(<<"s", "2">>, <<"A">>, <<"A", " ", "x">>),
     Call(<<"s", "3">>, NA, NA),
     Call(<<"s", "4">>, <<"A">>, <<"A", " ", "x">>)}

CallFiles ==
    {[columns |-> h,
      rows |-> [i \in 1..Len(rs) |-> [c \in Range(h) |-> rs[i][c]]]] :
     h \in {Full, NoTax}, rs \in SeqsUpTo(Calls, MaxFileRows)}

\* --files takes one or more paths (nargs='+').
FileLists == UNION {[1..k -> CallFiles] : k \in 1..MaxFiles}

\* ---------------------------------------------------------------- state
VARIABLES
    script,     \* which script runs: "parse" or "collect"
    pc,         \* position in the script
    sketch,     \* parse: the table in args.file (after the skipped lines)
    id,         \* parse: args.id
    files,      \* collect: the tables in args.files
    df,         \* the DataFrame named df in either script
    genus,      \* parse: genus returned by get_species
    tax,        \* parse: tax returned by get_species
    indexer,    \* collect: the order sort_values took the rows in
    output,     \* the file at args.output
    exc,        \* the exception that ended the script, "none" otherwise
    run,        \* collect: 1, or 2 when run again on its own output
    prev        \* collect: the output of run 1 during run 2

vars == <<script, pc, sketch, id, files, df, genus, tax, indexer, output,
          exc, run, prev>>

NoSketch == [columns |-> <<>>, rows |-> <<>>]

InitParse ==
    /\ script = "parse"
    /\ sketch \in Sketches
    /\ id \in Ids
    /\ files = <<>>

InitCollect ==
    /\ script = "collect"
    /\ files \in FileLists
    /\ sketch = NoSketch
    /\ id = <<>>

\* What neither script has set before its first statement.
InitRest ==
    /\ pc = "start"
    /\ df = NoFrame
    /\ genus = <<>>
    /\ tax = <<>>
    /\ indexer = <<>>
    /\ output = NoOutput
    /\ exc = "none"
    /\ run = 1
    /\ prev = NoOutput

StartParse == InitParse /\ InitRest

StartCollect == InitCollect /\ InitRest

Init == StartParse \/ StartCollect

\* ---------------------------------------------------------------- parse
\* line 29: df = pd.read_csv(args.file, sep='\t', skiprows=2)
ReadSketch ==
    /\ script = "parse" /\ pc = "start"
    /\ df' = read_csv(sketch)
    /\ pc' = "read"
    /\ UNCHANGED <<script, sketch, id, files, genus, tax, indexer, output,
                   exc, run, prev>>

\* line 30: genus, tax = get_species(df)
GetSpecies ==
    /\ script = "parse" /\ pc = "read"
    /\ LET r == get_species(df)
       IN /\ exc' = r.exc
          /\ genus' = r.genus
          /\ tax' = r.tax
          /\ pc' = IF r.exc = "none" THEN "resolved" ELSE "raised"
    /\ UNCHANGED <<script, sketch, id, files, df, indexer, output, run, prev>>

\* line 31-33: the one-row frame of the call.
mlst_df ==
    [columns |-> Full,
     rows |-> <<Call(Str(id), Str(genus), Str(tax))>>]

\* line 34: mlst_df.to_csv(args.output, sep='\t', index=False)
WriteCall ==
    /\ script = "parse" /\ pc = "resolved"
    /\ output' = to_csv(mlst_df)
    /\ pc' = "done"
    /\ UNCHANGED <<script, sketch, id, files, df, genus, tax, indexer, exc,
                   run, prev>>

\* ---------------------------------------------------------------- collect
\* line 12: df = pd.concat([pd.read_csv(f, sep='\t') for f in args.files])
ConcatFiles ==
    /\ script = "collect" /\ pc = "start"
    /\ df' = concat([k \in 1..Len(files) |-> read_csv(files[k])])
    /\ pc' = "concat"
    /\ UNCHANGED <<script, sketch, id, files, genus, tax, indexer, output,
                   exc, run, prev>>

\* line 13: df.sort_values(by='taxonomy', inplace=True)
\* KeyError when no input had a taxonomy column.
SortValues ==
    /\ script = "collect" /\ pc = "concat"
    /\ IF ~HasColumn(df, "taxonomy")
       THEN /\ exc' = "KeyError"
            /\ pc' = "raised"
            /\ UNCHANGED <<df, indexer>>
       ELSE /\ \E ix \in nargsort(Column(df, "taxonomy")) :
                 /\ indexer' = ix
                 /\ df' = take(df, ix)
            /\ pc' = "sorted"
            /\ UNCHANGED exc
    /\ UNCHANGED <<script, sketch, id, files, genus, tax, output, run, prev>>

\* line 14: df.to_csv(args.output, sep='\t', index=False)
WriteAll ==
    /\ script = "collect" /\ pc = "sorted"
    /\ output' = to_csv(df)
    /\ pc' = "done"
    /\ UNCHANGED <<script, sketch, id, files, df, genus, tax, indexer, exc,
                   run, prev>>

\* The collect script invoked again with --files naming only the file it
\* wrote.
Rerun ==
    /\ script = "collect" /\ pc = "done" /\ run = 1
    /\ files' = <<[columns |-> output.columns, rows |-> output.rows]>>
    /\ prev' = output
    /\ run' = 2
    /\ pc' = "start"
    /\ df' = NoFrame
    /\ indexer' = <<>>
    /\ output' = NoOutput
    /\ UNCHANGED <<script, sketch, id, genus, tax, exc>>

\* One run of the parse script.
NextParse ==
    \/ ReadSketch
    \/ GetSpecies
    \/ WriteCall

SpecParse == StartParse /\ [][NextParse]_vars

\* One run of the collect script, and a second run on its output.
NextCollect ==
    \/ ConcatFiles
    \/ SortValues
    \/ WriteAll
    \/ Rerun

SpecCollect == StartCollect /\ [][NextCollect]_vars

\* Either script.
Next ==
    \/ NextParse
    \/ NextCollect

Spec == Init /\ [][Next]_vars

TypeOK ==
    /\ script \in {"parse", "collect"}
    /\ pc \in {"start", "read", "resolved", "concat", "sorted", "done", "raised"}
    /\ run \in 1..2

\* ---------------------------------------------------------------- resolver claims
Count(l, x) == Cardinality({i \in 1..Len(l) : l[i] = x})
MaxCount(l) == SetMax({Count(l, l[i]) : i \in 1..Len(l)})
MostOften(l) == {x \in Range(l) : Count(l, x) = MaxCount(l)}
FirstIndex(l, x) == SetMin({i \in 1..Len(l) : l[i] = x})

\* get_species was called on df and returned or raised.
Resolved == script = "parse" /\ pc \in {"resolved", "done", "raised"}

\* df is non-empty, has a taxName column and every taxName cell is text.
TextTable(d) ==
    /\ HasColumn(d, "taxName")
    /\ Len(d.rows) > 0
    /\ \A i \in 1..Len(d.rows) : d.rows[i]["taxName"].kind = "str"

TaxTexts(d) == [i \in 1..Len(d.rows) |-> d.rows[i]["taxName"].s]

\* Genus tokens cut at the first U+0020.
SpaceTokens(d) == [i \in 1..Len(d.rows) |-> split_first(TaxTexts(d)[i])]

\* Genus tokens cut at the first whitespace character (space or tab).
WhitespaceToken(t) ==
    LET idx == {i \in 1..Len(t) : t[i] \in {" ", "\t"}}
    IN IF idx = {} THEN t ELSE SubSeq(t, 1, SetMin(idx) - 1)

WhitespaceTokens(d) ==
    [i \in 1..Len(d.rows) |-> WhitespaceToken(TaxTexts(d)[i])]

\* The frames that keep the first row of d and permute the others.
Reorderings(d) ==
    LET n == Len(d.rows)
        perms == {p \in [2..n -> 2..n] : \A i, j \in 2..n : p[i] = p[j] => i = j}
    IN {[columns |-> d.columns,
         rows |-> [i \in 1..n |-> IF i = 1 THEN d.rows[1] ELSE d.rows[p[i]]]] :
        p \in perms}

\* The call for a table whose tokens are toks: first row's name, a most
\* frequent token, and that token under every reordering when it is the
\* only most frequent one.
CallMatches(toks) ==
    /\ exc = "none"
    /\ tax = TaxTexts(df)[1]
    /\ genus \in MostOften(toks)
    /\ Cardinality(MostOften(toks)) = 1 =>
           \A d \in Reorderings(df) :
               /\ get_species(d).exc = "none"
               /\ get_species(d).genus = genus
               /\ get_species(d).tax = tax

\* C1: for a table without a taxName column, whatever its rows and other
\* columns and whatever the sample id, get_species returns genus 'NA' and
\* taxonomy 'NA' and raises nothing.
C1_NoTaxNameReturnsNA ==
    (Resolved /\ ~HasColumn(df, "taxName")) =>
        (pc # "raised" /\ exc = "none" /\ genus = NA /\ tax = NA)

C1_Witness ==
    /\ script = "parse" /\ pc = "done"
    /\ ~HasColumn(df, "taxName")
    /\ Len(df.rows) = 2
    /\ genus = NA /\ tax = NA
    /\ output.rows = <<Call(<<"s", "1">>, NA, NA)>>

\* C2 (as claimed): get_species on a table with zero rows returns a call
\* and surfaces no exception, also when the table has the taxName column.
C2_EmptyTableReturns ==
    (Resolved /\ Len(df.rows) = 0) => (pc # "raised" /\ exc = "none")

\* C3 (as claimed): for a non-empty table with a taxName column (text
\* cells), taxonomy is the first row's name, genus is a most frequent token
\* where a token ends before the first WHITESPACE character, and a strictly
\* most frequent token is the genus under every reordering of the rows after
\* the first.
C3_WhitespaceToken ==
    (Resolved /\ TextTable(df)) => CallMatches(WhitespaceTokens(df))

\* C3 (amended): the same with a token ending before the first space
\* character (U+0020) only.
C3_SpaceToken ==
    (Resolved /\ TextTable(df)) => CallMatches(SpaceTokens(df))

C3_Witness ==
    /\ script = "parse" /\ pc = "resolved"
    /\ TaxTexts(df) = <<<<"Z", " ", "y">>, <<"A", " ", "x">>, <<"A", " ", "x">>,
                        <<"Z", "\t", "z", " ", "w">>>>
    /\ genus = <<"A">>
    /\ tax = <<"Z", " ", "y">>

\* Several tokens share the highest count.
Tied(toks) == Cardinality(MostOften(toks)) > 1

\* The token whose running count is the first to equal the final maximum.
FirstToReachMax(toks) ==
    toks[SetMin({i \in 1..Len(toks) :
                   Count(SubSeq(toks, 1, i), toks[i]) = MaxCount(toks)})]

\* C4 (as claimed): on a tie the genus is the token that was the first to
\* reach the maximum count while the rows are scanned in order.
C4_FirstToReachMax ==
    (Resolved /\ TextTable(df) /\ Tied(SpaceTokens(df))) =>
        (exc = "none" /\ genus = FirstToReachMax(SpaceTokens(df)))

\* C4 (amended): on a tie the genus is the token of the first row, in scan
\* order, whose token ends up with the maximum count.
C4_FirstRowOfMaxToken ==
    (Resolved /\ TextTable(df) /\ Tied(SpaceTokens(df))) =>
        LET toks == SpaceTokens(df)
        IN /\ exc = "none"
           /\ genus = toks[SetMin({i \in 1..Len(toks) :
                                     Count(toks, toks[i]) = MaxCount(toks)})]

C4_Witness ==
    /\ script = "parse" /\ pc = "resolved"
    /\ SpaceTokens(df) = <<<<"A">>, <<"Z">>, <<"Z">>, <<"A">>>>
    /\ FirstToReachMax(SpaceTokens(df)) = <<"Z">>
    /\ genus = <<"A">>

\* C5: on a tie the genus is, among the tied tokens, the one whose first
\* occurrence is earliest in row order; rows 'A x', 'Z y' give genus 'A'.
C5_FirstEncounteredWins ==
    (Resolved /\ TextTable(df) /\ Tied(SpaceTokens(df))) =>
        LET toks == SpaceTokens(df)
        IN /\ exc = "none"
           /\ genus \in MostOften(toks)
           /\ \A t \in MostOften(toks) :
                  FirstIndex(toks, genus) <= FirstIndex(toks, t)
           /\ TaxTexts(df) = <<<<"A", " ", "x">>, <<"Z", " ", "y">>>> =>
                  genus = <<"A">>

C5_Witness ==
    /\ script = "parse" /\ pc = "resolved"
    /\ SpaceTokens(df) = <<<<"Z">>, <<"A">>, <<"A">>, <<"Z">>>>
    /\ genus = <<"Z">>

\* ---------------------------------------------------------------- aggregator claims
\* The rows of the input files as they stand in the files, concatenated in
\* the order of the files.
RECURSIVE RawRows(_)
RawRows(fs) ==
    IF fs = <<>> THEN <<>> ELSE Head(fs).rows \o RawRows(Tail(fs))

\* Every input file has the columns sample, genus, taxonomy.
AllFull == \A k \in 1..Len(files) : files[k].columns = Full

\* The collect script has written its output.
Collected == script = "collect" /\ pc = "done"

\* C6 (as claimed): the output rows are ascending by the taxonomy text of
\* the input rows they come from, a row whose taxonomy is 'NA' standing
\* where the string 'NA' belongs lexically.
C6_NASortsLexically ==
    (Collected /\ run = 1 /\ AllFull) =>
        \A i, j \in 1..Len(indexer) :
            i < j => ~StrLess(RawRows(files)[indexer[j]]["taxonomy"],
                              RawRows(files)[indexer[i]]["taxonomy"])

\* C7 (as claimed): two rows with equal taxonomy keep, in the output, the
\* relative order they have after concatenation.
C7_StableSort ==
    (Collected /\ run = 1 /\ AllFull) =>
        \A i, j \in 1..Len(indexer) :
            (i < j /\ RawRows(files)[indexer[i]]["taxonomy"]
                        = RawRows(files)[indexer[j]]["taxonomy"])
                => indexer[i] < indexer[j]

\* C8 (as claimed): the output holds every input row exactly once with the
\* field values it has in the input, 'NA' included.
C8_RowsConserved ==
    (Collected /\ run = 1 /\ AllFull) =>
        /\ output.columns = Full
        /\ Len(output.rows) = Len(RawRows(files))
        /\ \A r \in Range(output.rows) \cup Range(RawRows(files)) :
               Count(output.rows, r) = Count(RawRows(files), r)

\* C9 (as claimed): the collect script run on the single file it wrote
\* writes a file equal to it.
C9_Idempotent ==
    (Collected /\ run = 2) => output = prev

\* The input files do not all have the same columns.
Mismatched == \E k, m \in 1..Len(files) : files[k].columns # files[m].columns

\* C10 (as claimed): with input files whose column sets differ the script
\* aborts and never writes an output file.
C10_MismatchAborts ==
    (script = "collect" /\ run = 1 /\ Mismatched) =>
        (~output.written /\ pc \notin {"sorted", "done"})

====
